---- MODULE Spec2Model ----
(***************************************************************************)
(* The App component of src/unnamed/part_000 (a React function component)  *)
(* as a state machine.  The program state is the five useState cells, the  *)
(* fetches that were issued and have not resolved yet, and the files the   *)
(* download handler saved.  A step is one browser event delivered to a     *)
(* control that is rendered (typing, a click) or the resolution of one     *)
(* pending fetch, run to completion as JavaScript runs a handler or a      *)
(* continuation.                                                           *)
(*                                                                         *)
(* Strings that are only stored and shown (error messages) are TLA+        *)
(* strings; strings the code computes on (the prompt, the mob's name) are  *)
(* sequences of one-character strings.                                     *)
(***************************************************************************)
EXTENDS Integers, Sequences, FiniteSets, TLC

VARIABLES
  prompt,       \* useState("")        line 21
  state,        \* useState("idle")    line 22
  mob,          \* useState(null)      line 23
  error,        \* useState("")        line 24
  downloading,  \* useState(false)     line 25
  genPending,   \* fetch("/generate-json") calls awaiting their response
  dlPending,    \* fetch("/build-addon") calls awaiting their response
  genCalls,     \* number of fetch("/generate-json") calls issued so far
  dlCalls,      \* number of fetch("/build-addon") calls issued so far
  saved,        \* file names handed to the browser by a.click(), in order
  last          \* history: the event of the last step

vars == <<prompt, state, mob, error, downloading, genPending, dlPending,
          genCalls, dlCalls, saved, last>>

(***************************************************************************)
(* Bounds of the exploration.                                              *)
(***************************************************************************)
MaxPromptLen == 2
MaxGenCalls == 2
MaxDlCalls == 2
MaxNameLen == 3

(***************************************************************************)
(* Strings as character sequences.                                         *)
(***************************************************************************)
WhiteSpace == {" ", "\t"}

PromptChars == {" ", "a"}

SeqsUpTo(S, n) == UNION {[1..k -> S] : k \in 0..n}

Prompts == SeqsUpTo(PromptChars, MaxPromptLen)

RECURSIVE TrimStart(_)
TrimStart(s) ==
  IF s = <<>> THEN <<>>
  ELSE IF Head(s) \in WhiteSpace THEN TrimStart(Tail(s)) ELSE s

RECURSIVE TrimEnd(_)
TrimEnd(s) ==
  IF s = <<>> THEN <<>>
  ELSE IF s[Len(s)] \in WhiteSpace THEN TrimEnd(SubSeq(s, 1, Len(s) - 1)) ELSE s

\* Mutant: the prompt is tested and sent untrimmed
Trim_Identity(s) == s

\* String.prototype.trim
Trim(s) == TrimEnd(TrimStart(s))

\* String.prototype.toLowerCase, on the letters the model uses
LowerChar(c) ==
  CASE c = "A" -> "a"
    [] c = "B" -> "b"
    [] c = "D" -> "d"
    [] c = "F" -> "f"
    [] OTHER -> c

ToLowerCase(s) == [i \in 1..Len(s) |-> LowerChar(s[i])]

\* Mutant: /\s/g for /\s+/g, one "_" for every whitespace character
ReplaceWhiteSpaceRuns_EachChar(s) ==
  [i \in 1..Len(s) |-> IF s[i] \in WhiteSpace THEN "_" ELSE s[i]]

\* s.replace(/\s+/g, "_"): every maximal run of whitespace becomes one "_"
RECURSIVE ReplaceWhiteSpaceRuns(_)
ReplaceWhiteSpaceRuns(s) ==
  IF s = <<>> THEN <<>>
  ELSE IF Head(s) \in WhiteSpace
       THEN <<"_">> \o ReplaceWhiteSpaceRuns(TrimStart(s))
       ELSE <<Head(s)>> \o ReplaceWhiteSpaceRuns(Tail(s))

Extension == <<".", "m", "c", "a", "d", "d", "o", "n">>

\* `${mob.name.toLowerCase().replace(/\s+/g, "_")}.mcaddon`   line 68
FileName(name) == ReplaceWhiteSpaceRuns(ToLowerCase(name)) \o Extension

(***************************************************************************)
(* Values.                                                                 *)
(***************************************************************************)
\* JavaScript null (the mob before a result, a JSON null body)
NULL == [null |-> TRUE]

AppStates == {"idle", "loading", "result", "error"}

Loot1 == [item |-> "gem", min |-> 1, max |-> 2]
Loot2 == [item |-> "bone", min |-> 0, max |-> 3]

\* Two complete MobData bodies that differ only in the order of their lists
MobA == [name |-> <<"A", " ", " ", "B">>, health |-> 20, attack_damage |-> 5,
         abilities |-> <<"fly", "fire">>, loot |-> <<Loot1, Loot2>>]
MobB == [name |-> <<"A", " ", " ", "B">>, health |-> 20, attack_damage |-> 5,
         abilities |-> <<"fire", "fly">>, loot |-> <<Loot2, Loot1>>]
\* A JSON object that lacks a required MobData field, the name (the card
\* renders without it: lines 127-167 read only the lists' length)
MobPartial == [health |-> 20, attack_damage |-> 5,
               abilities |-> <<"fly", "fire">>, loot |-> <<Loot1, Loot2>>]

CompleteMobs == {MobA, MobB}

\* What res.json() can yield on a success status
SuccessJson == CompleteMobs \cup {MobPartial, NULL}

\* What res.json() can yield on a failure status
FailureJson == {[detail |-> "bad prompt"], [detail |-> ""], [other |-> "x"], NULL}

GenStatuses == {422, 500}
DlStatuses == {404, 500}

\* err.message of the rejection of fetch() itself
FetchFailedMessage == "Failed to fetch"
\* err.message of the SyntaxError res.json() rejects with
JsonSyntaxMessage == "Unexpected token < in JSON at position 0"
\* err.message of the TypeError of reading toLowerCase of undefined
NoNameMessage == "Cannot read properties of undefined (reading 'toLowerCase')"

\* The outcomes of fetch("/generate-json") followed by the body reads
GenResponses ==
  {[kind |-> "transport", ok |-> FALSE, status |-> 0, parses |-> FALSE, json |-> NULL]}
  \cup {[kind |-> "http", ok |-> TRUE, status |-> 200, parses |-> TRUE, json |-> j] :
          j \in SuccessJson}
  \cup {[kind |-> "http", ok |-> TRUE, status |-> 200, parses |-> FALSE, json |-> NULL]}
  \cup {[kind |-> "http", ok |-> FALSE, status |-> s, parses |-> TRUE, json |-> j] :
          s \in GenStatuses, j \in FailureJson}
  \cup {[kind |-> "http", ok |-> FALSE, status |-> s, parses |-> FALSE, json |-> NULL] :
          s \in GenStatuses}

\* The outcomes of fetch("/build-addon") followed by res.blob()
DlResponses ==
  {[kind |-> "transport", ok |-> FALSE, status |-> 0, blob |-> FALSE]}
  \cup {[kind |-> "http", ok |-> TRUE, status |-> 200, blob |-> b] : b \in BOOLEAN}
  \cup {[kind |-> "http", ok |-> FALSE, status |-> s, blob |-> FALSE] : s \in DlStatuses}

NoResponse == [kind |-> "none"]

\* The history record of a step: which event it was, whether the control
\* accepted it, whether a startOver ran while the resolved request was in
\* flight, and the response a resolution delivered.
Event(op, accepted, stale, resp) ==
  [op |-> op, accepted |-> accepted, stale |-> stale, resp |-> resp]

(***************************************************************************)
(* What is rendered.                                                       *)
(***************************************************************************)
\* Mutant: the form is rendered in idle only
FormRendered_IdleOnly == state = "idle"

\* Mutant: the form stays rendered while loading
FormRendered_WhileLoading == state \in {"idle", "error", "loading"}

\* (state === "idle" || state === "error") && <form ...>     line 97
FormRendered == state \in {"idle", "error"}

\* disabled={!prompt.trim()}                                  line 110
SubmitEnabled == Trim(prompt) # <<>>

\* state === "result" && mob && <div className="result">      line 124
ResultRendered == state = "result" /\ mob # NULL

\* Mutant: the Download button is never disabled
DownloadEnabled_Always == TRUE

\* disabled={downloading}                                     line 176
DownloadEnabled == ~downloading

(***************************************************************************)
(* Init: the state after the first render.                                 *)
(***************************************************************************)
Init ==
  /\ prompt = <<>>
  /\ state = "idle"
  /\ mob = NULL
  /\ error = ""
  /\ downloading = FALSE
  /\ genPending = <<>>
  /\ dlPending = <<>>
  /\ genCalls = 0
  /\ dlCalls = 0
  /\ saved = <<>>
  /\ last = Event("init", TRUE, FALSE, NoResponse)

(***************************************************************************)
(* The handlers.                                                           *)
(***************************************************************************)
RemoveAt(q, i) == SubSeq(q, 1, i - 1) \o SubSeq(q, i + 1, Len(q))

\* Marks every request in flight as begun before a startOver (history only)
MarkStale(q) == [i \in 1..Len(q) |-> [q[i] EXCEPT !.stale = TRUE]]

\* Mutant: the body's detail is not read
GenErrorMessage_StatusOnly(resp) ==
  "Server error (" \o ToString(resp.status) \o ")"

\* body?.detail ?? `Server error (${res.status})`   lines 42-43, where body
\* is null when res.json() rejects
GenErrorMessage(resp) ==
  LET body == IF resp.parses THEN resp.json ELSE NULL
  IN  IF body # NULL /\ "detail" \in DOMAIN body
      THEN body.detail
      ELSE "Server error (" \o ToString(resp.status) \o ")"

\* Mutant: the status code is left out of the message
DlErrorMessage_NoStatus(resp) == "Download failed"

\* `Download failed (${res.status})`                 line 63
DlErrorMessage(resp) == "Download failed (" \o ToString(resp.status) \o ")"

\* handleGenerate up to its await: lines 27-40
handleGenerate ==
  IF Trim(prompt) = <<>>
  THEN /\ UNCHANGED <<prompt, state, mob, error, downloading, genPending,
                      dlPending, genCalls, dlCalls, saved>>
       /\ last' = Event("generate", FALSE, FALSE, NoResponse)
  ELSE /\ state' = "loading"
       /\ error' = ""
       /\ mob' = NULL
       /\ genPending' = Append(genPending, [prompt |-> Trim(prompt), stale |-> FALSE])
       /\ genCalls' = genCalls + 1
       /\ last' = Event("generate", TRUE, FALSE, NoResponse)
       /\ UNCHANGED <<prompt, downloading, dlPending, dlCalls, saved>>

\* Mutant: the catch sets the message but not the state
GenerateSettled_CatchKeepsState(resp) ==
  IF resp.kind = "transport"
  THEN /\ error' = FetchFailedMessage
       /\ UNCHANGED <<state, mob>>
  ELSE IF ~resp.ok
  THEN /\ error' = GenErrorMessage(resp)
       /\ UNCHANGED <<state, mob>>
  ELSE IF ~resp.parses
  THEN /\ error' = JsonSyntaxMessage
       /\ UNCHANGED <<state, mob>>
  ELSE /\ mob' = resp.json
       /\ state' = "result"
       /\ UNCHANGED error

\* handleGenerate after its await: lines 41-51
GenerateSettled(resp) ==
  IF resp.kind = "transport"
  THEN /\ error' = FetchFailedMessage
       /\ state' = "error"
       /\ UNCHANGED mob
  ELSE IF ~resp.ok
  THEN /\ error' = GenErrorMessage(resp)
       /\ state' = "error"
       /\ UNCHANGED mob
  ELSE IF ~resp.parses
  THEN /\ error' = JsonSyntaxMessage
       /\ state' = "error"
       /\ UNCHANGED mob
  ELSE /\ mob' = resp.json
       /\ state' = "result"
       /\ UNCHANGED error

\* handleDownload up to its await: lines 54-62
handleDownload ==
  IF mob = NULL
  THEN /\ UNCHANGED <<prompt, state, mob, error, downloading, genPending,
                      dlPending, genCalls, dlCalls, saved>>
       /\ last' = Event("download", FALSE, FALSE, NoResponse)
  ELSE /\ downloading' = TRUE
       /\ dlPending' = Append(dlPending, [mob |-> mob, stale |-> FALSE])
       /\ dlCalls' = dlCalls + 1
       /\ last' = Event("download", TRUE, FALSE, NoResponse)
       /\ UNCHANGED <<prompt, state, mob, error, genPending, genCalls, saved>>

\* Mutant: setDownloading(false) at the end of the try block, not in finally
DownloadSettled_NoFinally(req, resp) ==
  IF resp.kind = "transport"
  THEN error' = FetchFailedMessage /\ UNCHANGED <<saved, downloading>>
  ELSE IF ~resp.ok
  THEN error' = DlErrorMessage(resp) /\ UNCHANGED <<saved, downloading>>
  ELSE IF ~resp.blob
  THEN error' = FetchFailedMessage /\ UNCHANGED <<saved, downloading>>
  ELSE IF "name" \notin DOMAIN req.mob
  THEN error' = NoNameMessage /\ UNCHANGED <<saved, downloading>>
  ELSE /\ saved' = Append(saved, FileName(req.mob.name))
       /\ downloading' = FALSE
       /\ UNCHANGED error

\* handleDownload after its await: lines 63-77.  req.mob is the mob the
\* handler closed over when it was clicked.
DownloadSettled(req, resp) ==
  /\ IF resp.kind = "transport"
     THEN error' = FetchFailedMessage /\ UNCHANGED saved
     ELSE IF ~resp.ok
     THEN error' = DlErrorMessage(resp) /\ UNCHANGED saved
     ELSE IF ~resp.blob
     THEN error' = FetchFailedMessage /\ UNCHANGED saved
     ELSE IF "name" \notin DOMAIN req.mob
     THEN error' = NoNameMessage /\ UNCHANGED saved
     ELSE saved' = Append(saved, FileName(req.mob.name)) /\ UNCHANGED error
  /\ downloading' = FALSE

\* Mutant: startOver without setError("")
handleStartOver_KeepsError ==
  /\ prompt' = <<>>
  /\ mob' = NULL
  /\ state' = "idle"
  /\ UNCHANGED error

\* handleStartOver: lines 80-85
handleStartOver ==
  /\ prompt' = <<>>
  /\ mob' = NULL
  /\ error' = ""
  /\ state' = "idle"

(***************************************************************************)
(* The steps: events on rendered controls and resolutions of fetches.      *)
(***************************************************************************)
\* onChange of the textarea: line 103
TypePrompt ==
  /\ FormRendered
  /\ \E v \in Prompts :
       /\ prompt' = v
       /\ last' = Event("type", TRUE, FALSE, NoResponse)
  /\ UNCHANGED <<state, mob, error, downloading, genPending, dlPending,
                 genCalls, dlCalls, saved>>

\* A click on "Generate Mob" (lines 107-113), which submits the form
\* (line 98) unless the button is disabled
ClickGenerate ==
  /\ FormRendered
  /\ IF SubmitEnabled
     THEN genCalls < MaxGenCalls /\ handleGenerate
     ELSE /\ UNCHANGED <<prompt, state, mob, error, downloading, genPending,
                         dlPending, genCalls, dlCalls, saved>>
          /\ last' = Event("generate", FALSE, FALSE, NoResponse)

\* A click on "Download .mcaddon" (lines 173-179)
ClickDownload ==
  /\ ResultRendered
  /\ IF DownloadEnabled
     THEN dlCalls < MaxDlCalls /\ handleDownload
     ELSE /\ UNCHANGED <<prompt, state, mob, error, downloading, genPending,
                         dlPending, genCalls, dlCalls, saved>>
          /\ last' = Event("download", FALSE, FALSE, NoResponse)

\* A click on "Start Over" (lines 180-182)
ClickStartOver ==
  /\ ResultRendered
  /\ handleStartOver
  /\ genPending' = MarkStale(genPending)
  /\ dlPending' = MarkStale(dlPending)
  /\ last' = Event("startOver", TRUE, FALSE, NoResponse)
  /\ UNCHANGED <<downloading, genCalls, dlCalls, saved>>

\* A pending fetch("/generate-json") resolves or rejects
GenerateResolves ==
  \E i \in 1..Len(genPending), resp \in GenResponses :
    /\ GenerateSettled(resp)
    /\ genPending' = RemoveAt(genPending, i)
    /\ last' = Event("generateSettled", TRUE, genPending[i].stale, resp)
    /\ UNCHANGED <<prompt, downloading, dlPending, genCalls, dlCalls, saved>>

\* A pending fetch("/build-addon") resolves or rejects
DownloadResolves ==
  \E i \in 1..Len(dlPending), resp \in DlResponses :
    /\ DownloadSettled(dlPending[i], resp)
    /\ dlPending' = RemoveAt(dlPending, i)
    /\ last' = Event("downloadSettled", TRUE, dlPending[i].stale, resp)
    /\ UNCHANGED <<prompt, state, mob, genPending, genCalls, dlCalls>>

Next ==
  \/ TypePrompt
  \/ ClickGenerate
  \/ ClickDownload
  \/ ClickStartOver
  \/ GenerateResolves
  \/ DownloadResolves

Spec == Init /\ [][Next]_vars

\* Every request that was issued settles: the network answers or the fetch
\* rejects, and the continuation of the awaiting handler then runs.
Fairness == WF_vars(GenerateResolves) /\ WF_vars(DownloadResolves)

SpecLive == Init /\ [][Next]_vars /\ Fairness

(***************************************************************************)
(* The download of a mob of any name: the state right after a generate     *)
(* request answered 200 with a complete mob of that name, and from there   *)
(* the download steps only.                                                *)
(***************************************************************************)
\* The characters of a TLA+ string, as a sequence of one-character strings
Chars(str) == [i \in 1..Len(str) |-> SubSeq(str, i, i)]

NameChars == {"A", "b", " ", "\t"}

Names ==
  SeqsUpTo(NameChars, MaxNameLen)
    \cup {Chars("Fire Dragon Boss"), Chars("A   B")}

MobNamed(n) == [MobA EXCEPT !.name = n]

InitFileName ==
  \E n \in Names :
    /\ prompt = <<"a">>
    /\ state = "result"
    /\ mob = MobNamed(n)
    /\ error = ""
    /\ downloading = FALSE
    /\ genPending = <<>>
    /\ dlPending = <<>>
    /\ genCalls = 1
    /\ dlCalls = 0
    /\ saved = <<>>
    /\ last = Event("generateSettled", TRUE, FALSE,
                    [kind |-> "http", ok |-> TRUE, status |-> 200,
                     parses |-> TRUE, json |-> MobNamed(n)])

NextFileName ==
  \/ ClickDownload
  \/ DownloadResolves

SpecFileName == InitFileName /\ [][NextFileName]_vars

TypeOK ==
  /\ prompt \in Prompts
  /\ state \in AppStates
  /\ downloading \in BOOLEAN
  /\ genCalls \in 0..MaxGenCalls
  /\ dlCalls \in 0..MaxDlCalls
  /\ Len(saved) <= dlCalls

(***************************************************************************)
(* Properties.                                                             *)
(***************************************************************************)
\* t occurs in s (both TLA+ strings)
Contains(s, t) ==
  \E i \in 1..(Len(s) - Len(t) + 1) : SubSeq(s, i, i + Len(t) - 1) = t

GenerateInFlight == genPending # <<>>
DownloadInFlight == dlPending # <<>>

\* C1 (not settled: its case is not reachable).  The claim is about a
\* startOver issued while a generate request is in flight.  A generate
\* request is in flight only while state is "loading", and the Start Over
\* button is rendered only in "result", so no generate request is ever
\* marked as begun before a startOver.
C1_ScenarioUnreachable ==
  /\ GenerateInFlight => state = "loading" /\ ~ResultRendered
  /\ \A i \in 1..Len(genPending) : ~genPending[i].stale
  /\ last.op = "generateSettled" => ~last.stale

\* C2: a download that was in flight when startOver ran is discarded when it
\* settles: it does not change error (nor state, mob, prompt).
C2_StaleDownloadIsDiscarded ==
  [][(last'.op = "downloadSettled" /\ last'.stale)
       => UNCHANGED <<state, mob, prompt, error>>]_vars

\* C3: in every reachable state, downloading implies state = "result".
C3_DownloadingOnlyInResult == downloading => state = "result"

\* C4: in every reachable state at most one generate request and at most one
\* download request is in flight.
C4_AtMostOneInFlight == Len(genPending) <= 1 /\ Len(dlPending) <= 1

C4_Witness == Len(genPending) = 1 /\ Len(dlPending) = 1

\* C5: while state is "loading" no step is a generate call and no step
\* issues a generation request (the one request of the attempt stays the
\* only one).
C5_NoGenerateWhileLoading ==
  [][state = "loading" => last'.op # "generate" /\ genCalls' = genCalls]_vars

\* Loading, with a prompt handleGenerate's own guard would let through and
\* with the exploration's cap on requests not reached
C5_Witness ==
  /\ state = "loading"
  /\ Trim(prompt) # <<>>
  /\ Len(genPending) = 1
  /\ genCalls < MaxGenCalls

\* C6: a packaging request is issued only from a state with mob present,
\* downloading false and state "result"; a download call is accepted exactly
\* in such a state, and a rejected one changes nothing and issues no request.
C6_DownloadGuard ==
  [][/\ dlCalls' # dlCalls => mob # NULL /\ ~downloading /\ state = "result"
     /\ last'.op = "download" =>
          (last'.accepted <=> (mob # NULL /\ ~downloading /\ state = "result"))
     /\ (last'.op = "download" /\ ~last'.accepted) =>
          UNCHANGED <<state, mob, error, prompt, downloading, dlCalls, dlPending>>
    ]_vars

\* A download click that was rejected because a download is in progress
C6_Witness ==
  /\ last.op = "download"
  /\ ~last.accepted
  /\ downloading
  /\ dlCalls < MaxDlCalls

\* C7: right after an accepted generate or an accepted download, error is
\* absent.
C7_AcceptedAttemptClearsError ==
  (last.op \in {"generate", "download"} /\ last.accepted) => error = ""

\* C8: right after startOver, state is "idle", prompt is empty, mob is absent
\* and error is absent.
C8_StartOverResets ==
  last.op = "startOver" =>
    state = "idle" /\ prompt = <<>> /\ mob = NULL /\ error = ""

\* startOver while a download request is in flight
C8_Witness == last.op = "startOver" /\ DownloadInFlight /\ downloading

\* C9: right after a generate request settles with a success response whose
\* body is the mob description d, state is "result", mob is d (every field,
\* the lists in d's order) and error is absent.
C9_SuccessGivesResult ==
  (/\ last.op = "generateSettled"
   /\ last.resp.ok
   /\ last.resp.parses
   /\ last.resp.json \in CompleteMobs) =>
    state = "result" /\ mob = last.resp.json /\ error = ""

\* C10: right after a generate request settles with a non-success response,
\* state is "error", mob is absent and error is the body's detail if the body
\* parses and has one, else a message that contains the status code.
C10_FailureGivesError ==
  (last.op = "generateSettled" /\ last.resp.kind = "http" /\ ~last.resp.ok) =>
    /\ state = "error"
    /\ mob = NULL
    /\ IF last.resp.parses /\ "detail" \in DOMAIN last.resp.json
       THEN error = last.resp.json.detail
       ELSE /\ error = "Server error (" \o ToString(last.resp.status) \o ")"
            /\ Contains(error, ToString(last.resp.status))

\* Status 500 with body {"detail": "bad prompt"}
C10_Witness ==
  /\ last.op = "generateSettled"
  /\ last.resp.status = 500
  /\ last.resp.parses
  /\ last.resp.json = [detail |-> "bad prompt"]
  /\ error = "bad prompt"

\* Every character of s is whitespace (s has empty trimmed content)
IsBlank(s) == \A i \in 1..Len(s) : s[i] \in WhiteSpace

\* C11: a generate call with a prompt whose trimmed content is empty is
\* rejected: it leaves state, error and mob unchanged and issues no
\* generation request.
C11_BlankPromptIsNoOp ==
  [][(last'.op = "generate" /\ IsBlank(prompt)) =>
       /\ ~last'.accepted
       /\ UNCHANGED <<state, error, mob, prompt, genCalls, genPending>>
    ]_vars

\* A rejected generate with a prompt of spaces, in "error" with its message
C11_Witness ==
  /\ last.op = "generate"
  /\ ~last.accepted
  /\ prompt # <<>>
  /\ IsBlank(prompt)
  /\ state = "error"
  /\ error # ""
  /\ genCalls < MaxGenCalls

\* C12: when the download accepted in the previous step settles with a
\* success response (status ok, payload read), state is still "result", mob
\* is unchanged, downloading is false, and error is absent if it was absent
\* when the download started.
C12_SuccessfulDownloadKeepsResult ==
  [][(/\ last.op = "download"
      /\ last.accepted
      /\ last'.op = "downloadSettled"
      /\ last'.resp.ok
      /\ last'.resp.blob) =>
       /\ state' = "result"
       /\ mob' = mob
       /\ mob' # NULL
       /\ ~downloading'
       /\ (error = "" => error' = "")
    ]_vars

C14_MalformedBodyGivesError ==
  (/\ last.op = "generateSettled"
   /\ last.resp.ok
   /\ last.resp.parses
   /\ last.resp.json \notin CompleteMobs) =>
    state = "error" /\ error # "" /\ mob = NULL

\* Lowercase letters of the letters the names are made of
Lowered(c) ==
  IF c \in {"A", "B", "D", "F"}
  THEN [A |-> "a", B |-> "b", D |-> "d", F |-> "f"][c]
  ELSE c

\* The positions of a name that give a character of the file name: every
\* character that is not whitespace, and the first character of every run
\* of whitespace
Giving(name) ==
  {i \in 1..Len(name) :
     name[i] \notin WhiteSpace \/ i = 1 \/ name[i - 1] \notin WhiteSpace}

\* The name lowercased with every maximal run of whitespace as one "_"
ExpectedStem(name) ==
  [k \in 1..Cardinality(Giving(name)) |->
     LET i == CHOOSE i \in Giving(name) :
                Cardinality({j \in Giving(name) : j <= i}) = k
     IN  IF name[i] \in WhiteSpace THEN "_" ELSE Lowered(name[i])]

\* C15: every file is saved under the mob's name lowercased, with every
\* maximal run of whitespace replaced by one underscore, followed by
\* ".mcaddon"; "Fire Dragon Boss" gives fire_dragon_boss.mcaddon and "A   B"
\* gives a_b.mcaddon; two downloads of the same mob give the same file name.
C15_FileNameFromName ==
  \A i \in 1..Len(saved) :
    /\ saved[i] = ExpectedStem(mob.name) \o Chars(".mcaddon")
    /\ mob.name = Chars("Fire Dragon Boss") =>
         saved[i] = Chars("fire_dragon_boss.mcaddon")
    /\ mob.name = Chars("A   B") => saved[i] = Chars("a_b.mcaddon")
    /\ \A j \in 1..Len(saved) : saved[j] = saved[i]

\* "A   B" downloaded twice
C15_Witness ==
  /\ mob.name = Chars("A   B")
  /\ saved = <<Chars("a_b.mcaddon"), Chars("a_b.mcaddon")>>

\* C16: in every reachable state with state = "loading", error is absent.
C16_NoErrorWhileLoading == state = "loading" => error = ""

\* C17: in every reachable state, mob is present if and only if state is
\* "result".
C17_MobPresentIffResult == (mob # NULL) <=> (state = "result")

\* C18: in "error" with a prompt whose trimmed content is not empty, a
\* generate call can be made (as long as the exploration's cap on requests
\* is not reached) and is accepted: it moves to "loading" with error and
\* mob absent and issues exactly one generation request, for the trimmed
\* prompt.
C18_RetryFromError ==
  /\ []((state = "error" /\ ~IsBlank(prompt) /\ genCalls < MaxGenCalls) =>
          ENABLED (ClickGenerate /\ last'.accepted))
  /\ [][(state = "error" /\ last'.op = "generate" /\ ~IsBlank(prompt)) =>
          /\ last'.accepted
          /\ state' = "loading"
          /\ error' = ""
          /\ mob' = NULL
          /\ genCalls' = genCalls + 1
          /\ genPending = <<>>
          /\ Len(genPending') = 1
          /\ genPending'[1].prompt = Trim(prompt)
       ]_vars

\* "error" with its message shown and a prompt to retry with, from where the
\* generate call moves to "loading" with the message cleared and one request
C18_Witness ==
  /\ state = "error"
  /\ error # ""
  /\ ~IsBlank(prompt)
  /\ ENABLED (/\ ClickGenerate
              /\ last'.accepted
              /\ state' = "loading"
              /\ error' = ""
              /\ genCalls' = genCalls + 1)

\* C19: given that every request settles, whenever downloading is true it
\* is false again later, whichever way the request settles and whatever
\* commands come in between.
C19_DownloadingEnds == downloading ~> ~downloading

\* A download that settled with a failure after a startOver, with
\* downloading false again
C19_Witness ==
  /\ last.op = "downloadSettled"
  /\ last.stale
  /\ ~last.resp.ok
  /\ ~downloading

\* C20: given that every request settles, state = "loading" leads to a state
\* that is not "loading"; right after a generate request settles, state is
\* "result" if the response was a success whose body was read and "error"
\* otherwise.
C20_LoadingEnds ==
  /\ (state = "loading") ~> (state # "loading")
  /\ [](last.op = "generateSettled" =>
          IF last.resp.ok /\ last.resp.parses
          THEN state = "result"
          ELSE state = "error")

\* A generate whose fetch was rejected ended in "error"
C20_Witness ==
  /\ last.op = "generateSettled"
  /\ last.resp.kind = "transport"
  /\ state = "error"
  /\ error # ""

====
